---- MODULE Spec2Model ----
(***************************************************************************)
(* A model of find_max_module.c: the module's load routine find_max_init   *)
(* (validate the element count, render the received array, scan for the   *)
(* maximum, collect its indices, render them) and its unload routine       *)
(* find_max_exit.  The routine is sequential; pc is its position.  Text is *)
(* modelled as sequences of one-character strings, and snprintf by what it *)
(* writes and what it returns.                                             *)
(***************************************************************************)
EXTENDS Integers, Sequences, FiniteSets, TLC

----------------------------------------------------------------------------
(* Program constants *)

MAX_ARRAY_SIZE == 16

\* a buffer half the size
HalfStrSize == 256 \div 2

\* sizeof(array_str), sizeof(indices_str)
STR_SIZE == 256

EINVAL == 22

INT_MAX == 2147483647

INT_MIN == (-INT_MAX) - 1

\* a seed that is not the smallest int
SeedNegIntMax == -INT_MAX

\* line 22: the seed of the running maximum
MaxSeed == INT_MIN

----------------------------------------------------------------------------
(* Bounds of the checked inputs *)

\* every array over Vals of length 1..MaxVarLen is an input
MaxVarLen == 3

\* arrays of every length 1..16 that repeat a value with period 1..MaxPeriod
MaxPeriod == 2

----------------------------------------------------------------------------
(* Text: formatting as the kernel's vsnprintf does it *)

Min(a, b) == IF a < b THEN a ELSE b

DigitChar(d) == <<"0", "1", "2", "3", "4", "5", "6", "7", "8", "9">>[d + 1]

RECURSIVE UDec(_)
\* the decimal digits of a natural number, most significant first
UDec(u) == IF u < 10 THEN <<DigitChar(u)>> ELSE UDec(u \div 10) \o <<DigitChar(u % 10)>>

\* "%d": a '-' and the digits of the magnitude for a negative value.  The
\* magnitude of INT_MIN does not fit 32 bits, so its last digit is split off
\* before the sign is dropped.
FmtD(v) ==
    IF v >= 0 THEN UDec(v)
    ELSE LET last == (10 - (v % 10)) % 10
             rest == -((v + last) \div 10)
         IN  <<"-">> \o (IF rest = 0 THEN <<>> ELSE UDec(rest)) \o <<DigitChar(last)>>

\* "Received %d element(s): ["
FmtArrayHeader(n) ==
    <<"R", "e", "c", "e", "i", "v", "e", "d", " ">> \o FmtD(n) \o
    <<" ", "e", "l", "e", "m", "e", "n", "t", "(", "s", ")", ":", " ", "[">>

\* "Found at index/indices: ["
FmtIndicesHeader ==
    <<"F", "o", "u", "n", "d", " ", "a", "t", " ", "i", "n", "d", "e", "x", "/",
      "i", "n", "d", "i", "c", "e", "s", ":", " ", "[">>

\* "%d%s" with the separator ", " for every element but the last
FmtElem(v, k, n) == FmtD(v) \o (IF k = n - 1 THEN <<>> ELSE <<",", " ">>)

FmtClose == <<"]">>

\* sizeof(buf) - offset, the size argument of every snprintf.  The C value is
\* a size_t: a negative difference here stands for the wrapped value, which
\* is above INT_MAX.
SizeArg(size, off) == size - off

\* snprintf's return value: the length the full text needs; the kernel's
\* vsnprintf refuses a size above INT_MAX and returns 0.
SnprintfRet(sz, text) == IF sz < 0 THEN 0 ELSE Len(text)

\* the string in the buffer after snprintf(buf + off, sz, text): at most
\* sz - 1 characters of the text and a terminator, nothing for a size of 0
\* or a refused size
SnprintfBuf(buf, off, sz, text) ==
    IF sz <= 0 THEN buf
    ELSE SubSeq(buf, 1, off) \o SubSeq(text, 1, Min(Len(text), sz - 1))

\* ret < 0 || ret >= sizeof(buf) - offset, compared as size_t
Truncated(r, sz) == r < 0 \/ (sz >= 0 /\ r >= sz)

----------------------------------------------------------------------------
(* State *)

VARIABLES
    input_array,    \* static int input_array[16], slots 0..15
    num_elements,   \* static int num_elements
    buf_size,       \* sizeof(array_str) and sizeof(indices_str)
    pc,             \* position in find_max_init / find_max_exit
    i,              \* int i
    max_val,        \* int max_val
    count,          \* int count
    max_indices,    \* int max_indices[16]: the slots written so far
    array_str,      \* char array_str[256], as the string it holds
    indices_str,    \* char indices_str[256], as the string it holds
    offset,         \* int offset of the rendering block in progress
    ret,            \* int ret of the rendering block in progress
    log,            \* the lines printk has emitted, in order
    status,         \* <<>> until find_max_init returns, then <<its value>>
    scanned         \* history: the indices the first scan has compared

vars == <<input_array, num_elements, buf_size, pc, i, max_val, count, max_indices,
          array_str, indices_str, offset, ret, log, status, scanned>>

Slots == 0 .. (MAX_ARRAY_SIZE - 1)

Line(sev, id, text) == [sev |-> sev, id |-> id, text |-> text]

printk(sev, id, text) == log' = Append(log, Line(sev, id, text))

----------------------------------------------------------------------------
(* Inputs *)

Vals == {INT_MIN, -5, -1, 0, 5, INT_MAX}

LongVals == {INT_MIN, 7, INT_MAX}

\* the static array holding the first n parsed values; the rest stay 0
Param(n, f) == [k \in Slots |-> IF k < n THEN f[k] ELSE 0]

SmallInputs ==
    UNION { { Param(n, f) : f \in [0 .. (n - 1) -> Vals] } : n \in 1 .. MaxVarLen }

PeriodicInputs(n) ==
    { Param(n, [k \in Slots |-> IF k % m = r THEN v ELSE w]) :
        <<m, r, v, w>> \in { t \in (1 .. MaxPeriod) \X (0 .. MaxPeriod) \X LongVals \X LongVals :
                               t[2] < t[1] } }

SingleInputs(n) ==
    { Param(n, [k \in Slots |-> IF k = p THEN v ELSE w]) :
        <<p, v, w>> \in (0 .. (n - 1)) \X LongVals \X LongVals }

ZeroArray == [k \in Slots |-> 0]

InitLocals ==
    /\ pc = "start"
    /\ i = 0
    /\ max_val = MaxSeed
    /\ count = 0
    /\ max_indices = <<>>
    /\ array_str = <<>>
    /\ indices_str = <<>>
    /\ offset = 0
    /\ ret = 0
    /\ log = <<>>
    /\ status = <<>>
    /\ scanned = {}

\* The parameter parser stores 0..16 values; -1 and 17 are the counts the
\* routine's own tests of lines 28 and 32 guard against.
InitInput ==
    \/ \E n \in 1 .. MaxVarLen : \E f \in [0 .. (n - 1) -> Vals] :
          /\ num_elements = n
          /\ input_array = Param(n, f)
    \/ \E n \in 1 .. MAX_ARRAY_SIZE :
          /\ num_elements = n
          /\ input_array \in PeriodicInputs(n) \cup SingleInputs(n)
    \/ /\ num_elements \in {-1, 0, MAX_ARRAY_SIZE + 1}
       /\ input_array = ZeroArray

Init ==
    /\ InitInput
    /\ buf_size = STR_SIZE
    /\ InitLocals

----------------------------------------------------------------------------
(* find_max_init *)

\* line 26
Start ==
    /\ pc = "start"
    /\ printk("INFO", "initializing", <<>>)
    /\ pc' = "validate"
    /\ UNCHANGED <<input_array, num_elements, buf_size, i, max_val, count, max_indices,
                   array_str, indices_str, offset, ret, status, scanned>>

\* the empty-input test with < for <=
IsEmptyStrict(n) == n < 0

\* line 28
IsEmpty(n) == n <= 0

\* the size test with >= for >
TooManyOffByOne(n) == n >= MAX_ARRAY_SIZE

\* line 32
TooMany(n) == n > MAX_ARRAY_SIZE

\* lines 28-31
RejectEmpty ==
    /\ pc = "validate"
    /\ IsEmpty(num_elements)
    /\ printk("ERR", "no_elements", <<>>)
    /\ status' = <<-EINVAL>>
    /\ pc' = "failed"
    /\ UNCHANGED <<input_array, num_elements, buf_size, i, max_val, count, max_indices,
                   array_str, indices_str, offset, ret, scanned>>

\* lines 32-35
RejectTooMany ==
    /\ pc = "validate"
    /\ ~IsEmpty(num_elements)
    /\ TooMany(num_elements)
    /\ printk("ERR", "too_many", FmtD(num_elements))
    /\ status' = <<-EINVAL>>
    /\ pc' = "failed"
    /\ UNCHANGED <<input_array, num_elements, buf_size, i, max_val, count, max_indices,
                   array_str, indices_str, offset, ret, scanned>>

\* lines 37-44: the header of the received-array text, and the loop's i = 0
ArrayHeader ==
    /\ pc = "validate"
    /\ ~IsEmpty(num_elements)
    /\ ~TooMany(num_elements)
    /\ LET sz == SizeArg(buf_size, 0)
           r  == SnprintfRet(sz, FmtArrayHeader(num_elements))
       IN  /\ array_str' = SnprintfBuf(<<>>, 0, sz, FmtArrayHeader(num_elements))
           /\ ret' = r
           /\ offset' = IF r > 0 THEN r ELSE 0
    /\ i' = 0
    /\ pc' = "array_loop"
    /\ UNCHANGED <<input_array, num_elements, buf_size, max_val, count, max_indices,
                   indices_str, log, status, scanned>>

\* lines 44-51: one iteration of the rendering loop, or its exit
ArrayElem ==
    /\ pc = "array_loop"
    /\ IF i < num_elements
       THEN LET text == FmtElem(input_array[i], i, num_elements)
                sz   == SizeArg(buf_size, offset)
                r    == SnprintfRet(sz, text)
            IN  /\ array_str' = SnprintfBuf(array_str, offset, sz, text)
                /\ ret' = r
                /\ IF Truncated(r, sz)
                   THEN /\ printk("WARNING", "array_truncated", <<>>)
                        /\ pc' = "array_close"
                        /\ UNCHANGED <<offset, i>>
                   ELSE /\ offset' = offset + r
                        /\ i' = i + 1
                        /\ UNCHANGED <<pc, log>>
       ELSE /\ pc' = "array_close"
            /\ UNCHANGED <<array_str, ret, offset, i, log>>
    /\ UNCHANGED <<input_array, num_elements, buf_size, max_val, count, max_indices,
                   indices_str, status, scanned>>

\* lines 52-56: the closing bracket, the received-array line, and the first
\* scan's i = 0
ArrayClose ==
    /\ pc = "array_close"
    /\ LET s == SnprintfBuf(array_str, offset, SizeArg(buf_size, offset), FmtClose)
       IN  /\ array_str' = s
           /\ printk("INFO", "received", s)
    /\ i' = 0
    /\ pc' = "scan1"
    /\ UNCHANGED <<input_array, num_elements, buf_size, max_val, count, max_indices,
                   indices_str, offset, ret, status, scanned>>

\* the comparison reversed
UpdatesMaxReversed(v, m) == v < m

\* line 57
UpdatesMax(v, m) == v > m

\* the loop condition stopping one element early
Scan1MoreOffByOne(k, n) == k < n - 1

\* line 56: the first scan's loop condition
Scan1More(k, n) == k < n

\* the first scan with its assignment reversed: input_array[i] = max_val
Scan1StepReversed ==
    /\ pc = "scan1"
    /\ IF Scan1More(i, num_elements)
       THEN /\ input_array' = IF UpdatesMax(input_array[i], max_val)
                              THEN [input_array EXCEPT ![i] = max_val] ELSE input_array
            /\ scanned' = scanned \cup {i}
            /\ i' = i + 1
            /\ UNCHANGED <<pc, max_val>>
       ELSE /\ pc' = "print_max"
            /\ UNCHANGED <<input_array, max_val, scanned, i>>
    /\ UNCHANGED <<num_elements, buf_size, count, max_indices,
                   array_str, indices_str, offset, ret, log, status>>

\* lines 56-60: one iteration of the first scan, or its exit
Scan1Step ==
    /\ pc = "scan1"
    /\ IF Scan1More(i, num_elements)
       THEN /\ max_val' = IF UpdatesMax(input_array[i], max_val) THEN input_array[i] ELSE max_val
            /\ scanned' = scanned \cup {i}
            /\ i' = i + 1
            /\ UNCHANGED pc
       ELSE /\ pc' = "print_max"
            /\ UNCHANGED <<max_val, scanned, i>>
    /\ UNCHANGED <<input_array, num_elements, buf_size, count, max_indices,
                   array_str, indices_str, offset, ret, log, status>>

\* lines 61-64: the maximum-value line, count = 0, and the second scan's i = 0
PrintMax ==
    /\ pc = "print_max"
    /\ printk("INFO", "max", FmtD(max_val))
    /\ count' = 0
    /\ i' = 0
    /\ pc' = "scan2"
    /\ UNCHANGED <<input_array, num_elements, buf_size, max_val, max_indices,
                   array_str, indices_str, offset, ret, status, scanned>>

\* the comparison with > for ==
IsOccurrenceGreater(v, m) == v > m

\* line 65
IsOccurrence(v, m) == v = m

\* the storage test one slot short
StorageHasRoomOffByOne(c) == c < MAX_ARRAY_SIZE - 1

\* line 66
StorageHasRoom(c) == c < MAX_ARRAY_SIZE

\* lines 64-74: one iteration of the second scan, or its exit
Scan2Step ==
    /\ pc = "scan2"
    /\ IF i < num_elements
       THEN IF IsOccurrence(input_array[i], max_val)
            THEN IF StorageHasRoom(count)
                 THEN /\ max_indices' = (count :> i) @@ max_indices
                      /\ count' = count + 1
                      /\ i' = i + 1
                      /\ UNCHANGED <<pc, log>>
                 ELSE /\ printk("WARNING", "more_occurrences", <<>>)
                      /\ pc' = "report"
                      /\ UNCHANGED <<max_indices, count, i>>
            ELSE /\ i' = i + 1
                 /\ UNCHANGED <<max_indices, count, pc, log>>
       ELSE /\ pc' = "report"
            /\ UNCHANGED <<max_indices, count, i, log>>
    /\ UNCHANGED <<input_array, num_elements, buf_size, max_val,
                   array_str, indices_str, offset, ret, status, scanned>>

\* lines 76-83 and 93-95: the header of the indices text and the loop's
\* i = 0, or the warning that no index was found
Report ==
    /\ pc = "report"
    /\ IF count > 0
       THEN LET sz == SizeArg(buf_size, 0)
                r  == SnprintfRet(sz, FmtIndicesHeader)
            IN  /\ indices_str' = SnprintfBuf(<<>>, 0, sz, FmtIndicesHeader)
                /\ ret' = r
                /\ offset' = IF r > 0 THEN r ELSE 0
                /\ i' = 0
                /\ pc' = "indices_loop"
                /\ UNCHANGED log
       ELSE /\ printk("WARNING", "no_index", <<>>)
            /\ pc' = "return"
            /\ UNCHANGED <<indices_str, ret, offset, i>>
    /\ UNCHANGED <<input_array, num_elements, buf_size, max_val, count, max_indices,
                   array_str, status, scanned>>

\* lines 83-90: one iteration of the rendering loop, or its exit
IndicesElem ==
    /\ pc = "indices_loop"
    /\ IF i < count
       THEN LET text == FmtElem(max_indices[i], i, count)
                sz   == SizeArg(buf_size, offset)
                r    == SnprintfRet(sz, text)
            IN  /\ indices_str' = SnprintfBuf(indices_str, offset, sz, text)
                /\ ret' = r
                /\ IF Truncated(r, sz)
                   THEN /\ printk("WARNING", "indices_truncated", <<>>)
                        /\ pc' = "indices_close"
                        /\ UNCHANGED <<offset, i>>
                   ELSE /\ offset' = offset + r
                        /\ i' = i + 1
                        /\ UNCHANGED <<pc, log>>
       ELSE /\ pc' = "indices_close"
            /\ UNCHANGED <<indices_str, ret, offset, i, log>>
    /\ UNCHANGED <<input_array, num_elements, buf_size, max_val, count, max_indices,
                   array_str, status, scanned>>

\* lines 91-92: the closing bracket and the indices line
IndicesClose ==
    /\ pc = "indices_close"
    /\ LET s == SnprintfBuf(indices_str, offset, SizeArg(buf_size, offset), FmtClose)
       IN  /\ indices_str' = s
           /\ printk("INFO", "indices", s)
    /\ pc' = "return"
    /\ UNCHANGED <<input_array, num_elements, buf_size, i, max_val, count, max_indices,
                   array_str, offset, ret, status, scanned>>

\* line 97
ReturnSuccess ==
    /\ pc = "return"
    /\ status' = <<0>>
    /\ pc' = "loaded"
    /\ UNCHANGED <<input_array, num_elements, buf_size, i, max_val, count, max_indices,
                   array_str, indices_str, offset, ret, log, scanned>>

----------------------------------------------------------------------------
(* find_max_exit: runs when a module whose init succeeded is unloaded *)

\* lines 100-102
find_max_exit ==
    /\ pc = "loaded"
    /\ printk("INFO", "exiting", <<>>)
    /\ pc' = "unloaded"
    /\ UNCHANGED <<input_array, num_elements, buf_size, i, max_val, count, max_indices,
                   array_str, indices_str, offset, ret, status, scanned>>

Next ==
    \/ Start
    \/ RejectEmpty
    \/ RejectTooMany
    \/ ArrayHeader
    \/ ArrayElem
    \/ ArrayClose
    \/ Scan1Step
    \/ PrintMax
    \/ Scan2Step
    \/ Report
    \/ IndicesElem
    \/ IndicesClose
    \/ ReturnSuccess
    \/ find_max_exit

Spec == Init /\ [][Next]_vars

----------------------------------------------------------------------------
(* Vocabulary of the properties *)

Has(id) == \E k \in 1 .. Len(log) : log[k].id = id

Times(id) == Cardinality({ k \in 1 .. Len(log) : log[k].id = id })

IsInfo(l) == l.sev = "INFO"

IsErr(l) == l.sev = "ERR"

InfoIds == LET info == SelectSeq(log, IsInfo) IN [k \in 1 .. Len(info) |-> info[k].id]

IsPrefix(a, b) == Len(a) <= Len(b) /\ SubSeq(b, 1, Len(a)) = a

ValidLength == num_elements >= 1 /\ num_elements <= MAX_ARRAY_SIZE

Elems == 0 .. (num_elements - 1)

\* the second scan has ended
Scan2Done == pc \in {"report", "indices_loop", "indices_close", "return", "loaded", "unloaded"}

\* find_max_init has returned
Returned == pc \in {"failed", "loaded", "unloaded"}

RECURSIVE Join(_, _, _)
\* the elements f[k], ..., f[n - 1], separated by ", "
Join(f, k, n) == IF k >= n THEN <<>> ELSE FmtElem(f[k], k, n) \o Join(f, k + 1, n)

FullArrayText == FmtArrayHeader(num_elements) \o Join(input_array, 0, num_elements) \o FmtClose

FullIndicesText == FmtIndicesHeader \o Join(max_indices, 0, count) \o FmtClose

----------------------------------------------------------------------------
(* C1 *)

\* C1: once the second scan has ended (and so when find_max_init finishes),
\* max_val is >= every input element and every stored index points to an
\* element equal to max_val.
C1_MaxBoundsAndIndicesPointAtMax ==
    (ValidLength /\ Scan2Done) =>
        /\ \A k \in Elems : max_val >= input_array[k]
        /\ \A j \in 0 .. (count - 1) :
              max_indices[j] \in Elems /\ input_array[max_indices[j]] = max_val

C1_Witness ==
    /\ pc = "loaded"
    /\ num_elements = MAX_ARRAY_SIZE
    /\ count = 8
    /\ \E k \in Elems : input_array[k] < max_val

----------------------------------------------------------------------------
(* C2 *)

\* C2: once the second scan has ended, every position holding the maximum is
\* in max_indices[0..count-1], and count is the number of such positions;
\* [5,5,5] gives the indices 0, 1, 2.
C2_AllOccurrencesCollected ==
    (ValidLength /\ Scan2Done) =>
        /\ \A k \in Elems :
              input_array[k] = max_val => \E j \in 0 .. (count - 1) : max_indices[j] = k
        /\ count = Cardinality({ k \in Elems : input_array[k] = max_val })
        /\ (num_elements = 3 /\ \A k \in Elems : input_array[k] = 5) =>
              max_indices = (0 :> 0) @@ (1 :> 1) @@ (2 :> 2)

C2_Witness ==
    /\ pc = "loaded"
    /\ num_elements = MAX_ARRAY_SIZE
    /\ count = MAX_ARRAY_SIZE
    /\ \A k \in Elems : max_indices[k] = k

----------------------------------------------------------------------------
(* C3 *)

\* C3: once the second scan has ended, the index list is non-empty and
\* strictly increasing, also when every element is INT_MIN, and the warning
\* that no index was found is never logged.
C3_IndicesIncreasingNonEmpty ==
    /\ ~Has("no_index")
    /\ (ValidLength /\ Scan2Done) =>
          /\ count >= 1
          /\ \A j \in 0 .. (count - 2) : max_indices[j] < max_indices[j + 1]

C3_Witness ==
    /\ pc = "loaded"
    /\ num_elements = 2
    /\ \A k \in Elems : input_array[k] = INT_MIN
    /\ max_val = INT_MIN
    /\ count = 2

----------------------------------------------------------------------------
(* C4 *)

\* C4: find_max_init returns -EINVAL exactly when num_elements <= 0 or
\* num_elements > 16, with the empty-input error logged in the first case
\* and the too-many-elements error in the second; for 1..16 it returns 0.
C4_ReturnValue ==
    /\ Returned <=> status # <<>>
    /\ Returned =>
          /\ status = <<-EINVAL>> <=> (num_elements <= 0 \/ num_elements > MAX_ARRAY_SIZE)
          /\ ValidLength => status = <<0>>
          /\ num_elements <= 0 => (Times("no_elements") = 1 /\ ~Has("too_many"))
          /\ num_elements > MAX_ARRAY_SIZE => (Times("too_many") = 1 /\ ~Has("no_elements"))
          /\ ValidLength => (~Has("too_many") /\ ~Has("no_elements"))

C4_Witness ==
    /\ pc = "failed"
    /\ num_elements = MAX_ARRAY_SIZE + 1
    /\ status = <<-EINVAL>>
    /\ Has("too_many")

----------------------------------------------------------------------------
(* Formatted writes of the rendering blocks *)

\* a formatted write into array_str is about to happen
ArrayWrite == (pc = "array_loop" /\ i < num_elements) \/ pc = "array_close"

\* a formatted write into indices_str is about to happen
IndicesWrite == (pc = "indices_loop" /\ i < count) \/ pc = "indices_close"

----------------------------------------------------------------------------
(* C6 *)

\* C6: at every write max_indices[count] = i of the second scan,
\* 0 <= count <= i < num_elements <= 16; only slots of the storage are ever
\* written, count never exceeds num_elements, and the warning about more
\* occurrences than the storage allows is never logged.
C6_IndexStorageInBounds ==
    /\ ~Has("more_occurrences")
    /\ DOMAIN max_indices \subseteq Slots
    /\ ValidLength => count <= num_elements
    /\ (pc = "scan2" /\ i < num_elements /\ IsOccurrence(input_array[i], max_val)) =>
          /\ 0 <= count
          /\ count <= i
          /\ i < num_elements
          /\ num_elements <= MAX_ARRAY_SIZE
    /\ pc = "scan2" => (count <= i /\ DOMAIN max_indices = 0 .. (count - 1))

C6_Witness ==
    /\ pc = "scan2"
    /\ i = MAX_ARRAY_SIZE
    /\ count = MAX_ARRAY_SIZE
    /\ max_indices[MAX_ARRAY_SIZE - 1] = MAX_ARRAY_SIZE - 1

----------------------------------------------------------------------------
(* C7 *)

\* C7: no step of find_max_init or find_max_exit changes input_array or
\* num_elements.
C7_InputReadOnly ==
    [][input_array' = input_array /\ num_elements' = num_elements]_vars

C7_Witness ==
    /\ pc = "unloaded"
    /\ Has("exiting")
    /\ scanned = Elems
    /\ \E k \in Elems : input_array[k] # 0

----------------------------------------------------------------------------
(* C8 *)

\* C8: for a valid length the informational lines come in the order
\* initializing, received, max, indices (then exiting), each once; success
\* is returned only after all of them; and the max line is never in the log
\* before the first scan has compared every element.
C8_InfoLinesInOrder ==
    ValidLength =>
        /\ IsPrefix(InfoIds, <<"initializing", "received", "max", "indices", "exiting">>)
        /\ status = <<0>> =>
              (Times("received") = 1 /\ Times("max") = 1 /\ Times("indices") = 1)
        /\ pc = "loaded" => InfoIds = <<"initializing", "received", "max", "indices">>
        /\ Has("max") => scanned = Elems

C8_Witness ==
    /\ pc = "loaded"
    /\ status = <<0>>
    /\ num_elements = 3
    /\ InfoIds = <<"initializing", "received", "max", "indices">>
    /\ scanned = {0, 1, 2}

----------------------------------------------------------------------------
(* C9 *)

\* C9: with num_elements <= 0 or > 16 the routine only validates and fails:
\* it logs exactly one error line, returns -EINVAL, compares and renders no
\* element, and never logs a received, max or indices line.
C9_InvalidLengthFailsAtOnce ==
    ~ValidLength =>
        /\ pc \in {"start", "validate", "failed"}
        /\ scanned = {}
        /\ array_str = <<>>
        /\ indices_str = <<>>
        /\ max_indices = <<>>
        /\ ~Has("received") /\ ~Has("max") /\ ~Has("indices")
        /\ Len(SelectSeq(log, IsErr)) = (IF pc = "failed" THEN 1 ELSE 0)
        /\ pc = "failed" => (Len(log) = 2 /\ status = <<-EINVAL>>)

C9_Witness ==
    /\ pc = "failed"
    /\ num_elements = 0
    /\ Len(SelectSeq(log, IsErr)) = 1

----------------------------------------------------------------------------
(* C10 *)

\* C10: with the 256-byte buffers neither truncation warning is ever logged,
\* every formatted write starts at an offset below 256, every element renders
\* to at most 11 characters, the closing bracket and the terminator fit, and
\* the logged lines are the full texts.
C10_NoTruncationAt256 ==
    /\ buf_size = STR_SIZE
    /\ ~Has("array_truncated")
    /\ ~Has("indices_truncated")
    /\ (ArrayWrite \/ IndicesWrite) => offset < STR_SIZE
    /\ pc \in {"array_close", "indices_close"} => offset + Len(FmtClose) + 1 <= STR_SIZE
    /\ ValidLength => \A k \in Elems : Len(FmtD(input_array[k])) <= 11
    /\ Has("received") => (array_str = FullArrayText /\ Len(array_str) + 1 <= STR_SIZE)
    /\ Has("indices") => (indices_str = FullIndicesText /\ Len(indices_str) + 1 <= STR_SIZE)

C10_Witness ==
    /\ pc = "loaded"
    /\ num_elements = MAX_ARRAY_SIZE
    /\ \A k \in Elems : input_array[k] = INT_MIN
    /\ Len(array_str) = 232
    /\ array_str[232] = "]"

====
